---- MODULE Spec2Model ----
(***************************************************************************)
(* Model of the book-catalogue scraper: main.py (etl) and                  *)
(* scraping/get_books_data.py (extract_soup, get_categories,               *)
(* get_books_in_category, sanitize_filename, download_image,               *)
(* extract_book_info, write_to_csv), with scraping/utils.py.               *)
(*                                                                         *)
(* Text is a sequence of one-character strings.  A URL is a record         *)
(* [host, path], path being the sequence of segments between the slashes   *)
(* after the host; a trailing slash is a last segment "".  A relative      *)
(* reference is a record [kind, host, up, segs].  The web site is a        *)
(* function from URLs to responses, chosen once in Init.                   *)
(*                                                                         *)
(* Program state: categories, ci, cursor, book_urls, bi, books (the locals *)
(* of etl and get_books_in_category), pc (the position in etl), exc (the   *)
(* exception that ended the run), files (the CSV files), dirs and imgFiles *)
(* (the image folders and files).  Observations: requests (every GET, in   *)
(* order), pagStart (the length of requests when the current call of       *)
(* get_books_in_category began), finished (one entry per category the loop *)
(* has left).  filename and cleaned hold the argument and the results of   *)
(* sanitize_filename when it is exercised on its own.                      *)
(***************************************************************************)
EXTENDS Integers, Sequences, FiniteSets, TLC

VARIABLES site, pc, exc, categories, ci, cursor, book_urls, bi, books,
          files, dirs, imgFiles, requests, pagStart, finished,
          filename, cleaned

vars == <<site, pc, exc, categories, ci, cursor, book_urls, bi, books,
          files, dirs, imgFiles, requests, pagStart, finished,
          filename, cleaned>>

-----------------------------------------------------------------------------
(* Bounds of the explored inputs *)

\* longest categories navigation block of a generated home page
MaxEntries == 3
\* most item-summary blocks over the generated listing pages of a category
MaxItems == 3
\* page fetches explored inside one call of get_books_in_category
MaxFetches == 4
\* longest file name given to sanitize_filename on its own
MaxLen == 3

-----------------------------------------------------------------------------
(* Text helpers *)

\* str.strip(): drop leading and trailing blanks
RECURSIVE lstrip(_)
lstrip(s) == IF s # <<>> /\ Head(s) = " " THEN lstrip(Tail(s)) ELSE s

RECURSIVE rstrip(_)
rstrip(s) == IF s # <<>> /\ s[Len(s)] = " " THEN rstrip(SubSeq(s, 1, Len(s) - 1)) ELSE s

strip(s) == rstrip(lstrip(s))

\* s[1:] as used on the two price cells
DropFirst(s) == IF s = <<>> THEN <<>> ELSE Tail(s)

\* the character class of the regular expression  [<>:"/\\|?*]
InvalidCharsNoStar == {"<", ">", ":", "\"", "/", "\\", "|", "?"}

InvalidChars == {"<", ">", ":", "\"", "/", "\\", "|", "?", "*"}

\* the same class as written in scraping/utils.py
UtilsInvalidChars == {"<", ">", ":", "\"", "/", "\\", "|", "?", "*"}

\* re.sub(class, '', s): every match is replaced by the empty string
RECURSIVE re_sub_class(_, _)
re_sub_class(class, s) ==
    IF s = <<>> THEN <<>>
    ELSE IF Head(s) \in class THEN re_sub_class(class, Tail(s))
         ELSE <<Head(s)>> \o re_sub_class(class, Tail(s))

sanitize_filename(name) == re_sub_class(InvalidChars, name)

utils_sanitize_filename(name) == re_sub_class(UtilsInvalidChars, name)

\* posixpath.join(a, b): an absolute b replaces a; otherwise b is appended,
\* after a "/" unless a is empty or already ends with one
os_path_join2(a, b) ==
    IF b # <<>> /\ Head(b) = "/" THEN b
    ELSE IF a = <<>> \/ a[Len(a)] = "/" THEN a \o b
         ELSE a \o <<"/">> \o b

os_path_join3(a, b, c) == os_path_join2(os_path_join2(a, b), c)

-----------------------------------------------------------------------------
(* URLs *)

Host == "books.toscrape.com"

Url(path) == [host |-> Host, path |-> path]

\* relative reference "../" * up + "/".join(segs)
Rel(up, segs) == [kind |-> "rel", host |-> "", up |-> up, segs |-> segs]

Min(a, b) == IF a < b THEN a ELSE b

\* urllib.parse.urljoin(base, ref): a full URL stands for itself, a rooted
\* path replaces the base path, a relative path is merged with the base
\* directory and each leading ".." removes one directory, never the host
urljoin(base, ref) ==
    IF ref.kind = "full" THEN [host |-> ref.host, path |-> ref.segs]
    ELSE IF ref.kind = "root" THEN [host |-> base.host, path |-> ref.segs]
    ELSE LET dir  == IF base.path = <<>> THEN <<>>
                     ELSE SubSeq(base.path, 1, Len(base.path) - 1)
             keep == Len(dir) - Min(ref.up, Len(dir))
         IN  [host |-> base.host, path |-> SubSeq(dir, 1, keep) \o ref.segs]

\* '{uri.scheme}://{uri.netloc}'.format(uri=urlparse(book_url))
domain_of(url) == [host |-> url.host, path |-> <<>>]

\* url.rsplit('/', 2)[-2]: the text between the last two slashes, which is
\* the host when the path has one segment and empty when it has none
rsplit_name(url) ==
    IF Len(url.path) >= 2 THEN url.path[Len(url.path) - 1]
    ELSE IF Len(url.path) = 1 THEN url.host
    ELSE ""

-----------------------------------------------------------------------------
(* HTML documents, as far as the selectors of the program can see them *)

NoRef == Rel(0, <<>>)

\* an element holding a link: <a href=ref>
Link(ref) == [kind |-> "link", ref |-> ref]
\* an element without the <a> the program looks for inside it
NoA == [kind |-> "noa", ref |-> NoRef]
\* an <article class="product_pod"> without <h3>
NoH3 == [kind |-> "noh3", ref |-> NoRef]
\* no <li class="next"> on the page
NoNext == [kind |-> "none", ref |-> NoRef]

\* <div class="item active"><img src=ref>, and the ways it can be missing
ImgSrc(ref) == [kind |-> "src", ref |-> ref]
NoImgDiv == [kind |-> "nodiv", ref |-> NoRef]
NoImgTag == [kind |-> "noimg", ref |-> NoRef]

\* A document: nav is <<>> (no <ul class="nav nav-list">) or <<entries>>;
\* the text fields are <<>> (element absent) or <<text>>; breadcrumb is <<>>
\* or <<texts of its li>>; rating is <<>> or <<class tokens>>.
BlankDoc ==
    [nav |-> <<>>, articles |-> <<>>, next |-> NoNext,
     h1 |-> <<>>, upc |-> <<>>, price_incl |-> <<>>, price_excl |-> <<>>,
     availability |-> <<>>, description |-> <<>>, breadcrumb |-> <<>>,
     rating |-> <<>>, img |-> NoImgDiv]

\* requests.get + raise_for_status succeeded and the body parsed to doc
Ok(doc) == [ok |-> TRUE, doc |-> doc]
\* requests raised a RequestException (no connection, 4xx, 5xx)
Failed == [ok |-> FALSE, doc |-> BlankDoc]

-----------------------------------------------------------------------------
(* The site: fixed URLs, generated contents *)

HomeUrl == Url(<<"">>)
ListA1 == Url(<<"category", "travel_2", "index.html">>)
ListA2 == Url(<<"category", "travel_2", "more", "page-2.html">>)
ListB1 == Url(<<"category", "poetry_23", "index.html">>)
Item1 == Url(<<"book-a_1", "index.html">>)
Item2 == Url(<<"book-b_2", "index.html">>)
Image1 == Url(<<"media", "a.jpg">>)
Image2 == Url(<<"media", "b.jpg">>)

PageUrls == {HomeUrl, ListA1, ListA2, ListB1, Item1, Item2}
ImageUrls == {Image1, Image2}

\* references found on the pages
RefCatA == Rel(0, <<"category", "travel_2", "index.html">>)
RefCatB == Rel(0, <<"category", "poetry_23", "index.html">>)
\* "../../book-a_1/index.html": Item1 from ListA1 and ListB1, a missing page from ListA2
RefItem1 == Rel(2, <<"book-a_1", "index.html">>)
\* "../../../book-b_2/index.html": Item2 from every listing page
RefItem2 == Rel(3, <<"book-b_2", "index.html">>)
\* "more/page-2.html": ListA2 from ListA1, a missing page from ListA2
RefMore == Rel(0, <<"more", "page-2.html">>)
\* "../index.html": ListA1 from ListA2, a missing page from ListA1
RefBack == Rel(1, <<"index.html">>)
RefImage1 == Rel(2, <<"media", "a.jpg">>)
RefImage2 == Rel(2, <<"media", "b.jpg">>)

\* all sequences over S of length at most n
SeqsUpTo(S, n) == UNION {[1..k -> S] : k \in 0..n}

HomeDoc(entries) == [BlankDoc EXCEPT !.nav = <<entries>>]

ListingDoc(articles, next) == [BlankDoc EXCEPT !.articles = articles, !.next = next]

ItemDoc(title, category, imgref) ==
    [BlankDoc EXCEPT
        !.h1 = <<title>>,
        !.upc = <<<<"u", "1">>>>,
        !.price_incl = <<<<"$", "5", "1">>>>,
        !.price_excl = <<<<"$", "5", "0">>>>,
        !.availability = <<<<" ", "I", "n", " ">>>>,
        !.description = <<<<"d">>>>,
        !.breadcrumb = <<<<<<"H">>, <<"B">>, category>>>>,
        !.rating = <<<<"star-rating", "Three">>>>,
        !.img = ImgSrc(imgref)]

Titles == {<<"a">>, <<"a", ":", "b">>, <<"/", "a">>, <<" ", "a", " ">>}
Labels == {<<"T">>, <<"T", "?">>}

\* the elements extract_book_info requires, and one broken page for each
RequiredElems == {"h1", "upc", "price_incl", "price_excl", "availability",
                  "description", "breadcrumb", "rating", "img"}

BaseItem1 == ItemDoc(<<"a">>, <<"T">>, RefImage1)
BaseItem2 == ItemDoc(<<"b">>, <<"T">>, RefImage2)

BrokenItemDocs ==
    {[BaseItem1 EXCEPT ![e] = IF e = "img" THEN NoImgDiv ELSE <<>>] : e \in RequiredElems}
    \cup {[BaseItem1 EXCEPT !.breadcrumb = <<<<<<"H">>, <<"B">>>>>>],
          [BaseItem1 EXCEPT !.rating = <<<<"star-rating">>>>],
          [BaseItem1 EXCEPT !.img = NoImgTag]}

ItemResponses ==
    {Failed} \cup {Ok(d) : d \in BrokenItemDocs}
    \cup {Ok(ItemDoc(t, c, RefImage1)) : t \in Titles, c \in Labels}

\* status of the image response; 0 stands for a connection error
ImageStatuses == {0, 200, 204, 404}

NavEntries == {Link(RefCatA), Link(RefCatB), NoA}
Blocks == {Link(RefItem1), Link(RefItem2), NoH3, NoA}
NextControls == {NoNext, NoA, Link(RefMore), Link(RefBack)}

BasePages ==
    [u \in PageUrls |->
        CASE u = HomeUrl -> Ok(HomeDoc(<<Link(RefCatB), Link(RefCatA), Link(RefCatB)>>))
          [] u = ListA1 -> Ok(ListingDoc(<<Link(RefItem1), Link(RefItem2)>>, Link(RefMore)))
          [] u = ListA2 -> Ok(ListingDoc(<<Link(RefItem2)>>, NoNext))
          [] u = ListB1 -> Ok(ListingDoc(<<Link(RefItem1)>>, NoNext))
          [] u = Item1 -> Ok(BaseItem1)
          [] u = Item2 -> Ok(BaseItem2)]

BaseImages == [u \in ImageUrls |-> 200]

BaseSite == [pages |-> BasePages, images |-> BaseImages]

\* sites that differ from the base site in the home page
HomeResponses ==
    {Failed, Ok(BlankDoc)} \cup {Ok(HomeDoc(es)) : es \in SeqsUpTo(NavEntries, MaxEntries)}

NavSites == {[BaseSite EXCEPT !.pages[HomeUrl] = r] : r \in HomeResponses}

\* sites that differ from the base site in the listing pages of category A
ListingResponses(n) ==
    {Failed} \cup {Ok(ListingDoc(as, nx)) : as \in SeqsUpTo(Blocks, n), nx \in NextControls}

ListSites ==
    {[BaseSite EXCEPT !.pages[ListA1] = r1, !.pages[ListA2] = r2] :
        <<r1, r2>> \in {p \in ListingResponses(MaxItems) \X ListingResponses(MaxItems) :
                          Len(p[1].doc.articles) + Len(p[2].doc.articles) <= MaxItems}}

\* sites that differ from the base site in the item pages and the images
ItemSites ==
    {[BaseSite EXCEPT !.pages[Item1] = r1, !.pages[Item2] = r2, !.images[Image1] = st] :
        r1 \in ItemResponses,
        r2 \in {Failed, Ok(BaseItem2), Ok([BaseItem2 EXCEPT !.h1 = <<>>])},
        st \in ImageStatuses}

Sites == NavSites \cup ListSites \cup ItemSites

-----------------------------------------------------------------------------
(* The functions of scraping/get_books_data.py *)

\* extract_soup(url): the parsed page, or None (ok = FALSE) when requests
\* raised; a URL the site does not serve is a failed request
extract_soup(s, url) == IF url \in PageUrls THEN s.pages[url] ELSE Failed

\* one GET as it is seen on the network
Request(url, ok) == [url |-> url, ok |-> ok]

\* list slice xs[1:]
Rest(xs) == IF xs = <<>> THEN <<>> ELSE Tail(xs)

\* get_categories with the slice [1:] forgotten
get_categories_keep_first(s, url) ==
    LET r == extract_soup(s, url) IN
    IF ~r.ok \/ r.doc.nav = <<>> THEN [exc |-> "", val |-> <<>>]
    ELSE LET lis == r.doc.nav[1] IN
         IF \E i \in DOMAIN lis : lis[i].kind # "link"
         THEN [exc |-> "TypeError", val |-> <<>>]
         ELSE [exc |-> "", val |-> [i \in DOMAIN lis |-> urljoin(url, lis[i].ref)]]

\* get_categories(url): [] when the fetch failed; [] when the nav block is
\* absent (None.find_all raises AttributeError, which is caught); otherwise
\* the links of the entries after the first, each joined with url.  An entry
\* without <a> makes None['href'] raise TypeError, which is not caught.
get_categories(s, url) ==
    LET r == extract_soup(s, url) IN
    IF ~r.ok THEN [exc |-> "", val |-> <<>>]
    ELSE IF r.doc.nav = <<>> THEN [exc |-> "", val |-> <<>>]
    ELSE LET lis == Rest(r.doc.nav[1]) IN
         IF \E i \in DOMAIN lis : lis[i].kind # "link"
         THEN [exc |-> "TypeError", val |-> <<>>]
         ELSE [exc |-> "", val |-> [i \in DOMAIN lis |-> urljoin(url, lis[i].ref)]]

\* the article loop with every link joined with the home URL instead of the
\* URL of the page it stands on
RECURSIVE scan_articles_from_home(_, _)
scan_articles_from_home(page_url, articles) ==
    IF articles = <<>> THEN [urls |-> <<>>, exc |-> ""]
    ELSE LET a == Head(articles) IN
         IF a.kind = "noh3" THEN [urls |-> <<>>, exc |-> "AttributeError"]
         ELSE IF a.kind # "link" THEN [urls |-> <<>>, exc |-> "TypeError"]
         ELSE LET rest == scan_articles_from_home(page_url, Tail(articles)) IN
              [urls |-> <<urljoin(HomeUrl, a.ref)>> \o rest.urls, exc |-> rest.exc]

\* the article loop of get_books_in_category on one page: the URLs appended
\* in document order until the loop ends or a block raises.  A block without
\* <h3> raises AttributeError (None.find); a block whose <h3> has no <a>
\* raises TypeError (None['href']).
RECURSIVE scan_articles(_, _)
scan_articles(page_url, articles) ==
    IF articles = <<>> THEN [urls |-> <<>>, exc |-> ""]
    ELSE LET a == Head(articles) IN
         IF a.kind = "noh3" THEN [urls |-> <<>>, exc |-> "AttributeError"]
         ELSE IF a.kind # "link" THEN [urls |-> <<>>, exc |-> "TypeError"]
         ELSE LET rest == scan_articles(page_url, Tail(articles)) IN
              [urls |-> <<urljoin(page_url, a.ref)>> \o rest.urls, exc |-> rest.exc]

\* a function with one more (or one replaced) entry
Put(f, k, v) == [x \in (DOMAIN f) \cup {k} |-> IF x = k THEN v ELSE f[x]]

EmptyMap == [x \in {} |-> <<>>]

ImagesDir == <<"i", "m", "a", "g", "e", "s">>
JpgSuffix == <<".", "j", "p", "g">>

\* the status requests.get(image_url) ends with; 0 is a connection error,
\* an image the site does not serve is a 404
image_status(s, image_url) == IF image_url \in ImageUrls THEN s.images[image_url] ELSE 404

\* download_image writing under the names as given, without sanitize_filename
download_image_unsanitized(s, image_url, category_name, image_name, fs) ==
    LET status == image_status(s, image_url) IN
    IF status = 0 \/ (400 <= status /\ status < 600) THEN fs
    ELSE IF status = 200
    THEN LET category_folder == os_path_join2(ImagesDir, category_name)
             image_path == os_path_join2(category_folder, image_name)
         IN  [dirs |-> fs.dirs \cup {ImagesDir, category_folder},
              files |-> Put(fs.files, image_path, image_url)]
    ELSE fs

\* download_image creating the category folder before it asks for the image
download_image_mkdir_first(s, image_url, category_name, image_name, fs) ==
    LET status == image_status(s, image_url)
        category_folder == os_path_join2(ImagesDir, sanitize_filename(category_name))
        image_path == os_path_join2(category_folder, sanitize_filename(image_name))
        made == [fs EXCEPT !.dirs = @ \cup {ImagesDir, category_folder}]
    IN  IF status = 200 THEN [made EXCEPT !.files = Put(@, image_path, image_url)]
        ELSE made

\* download_image(image_url, category_name, image_name): on a connection
\* error or an error status (raise_for_status) the RequestException is
\* caught; on a status other than 200 nothing is written; on 200 the folder
\* images/<sanitized category> is made and the body is written, replacing
\* any file of the same path.  fs is [dirs, files]; the body of an image is
\* named by its URL.
download_image(s, image_url, category_name, image_name, fs) ==
    LET status == image_status(s, image_url) IN
    IF status = 0 \/ (400 <= status /\ status < 600) THEN fs
    ELSE IF status = 200
    THEN LET category_folder == os_path_join2(ImagesDir, sanitize_filename(category_name))
             image_path == os_path_join2(category_folder, sanitize_filename(image_name))
         IN  [dirs |-> fs.dirs \cup {ImagesDir, category_folder},
              files |-> Put(fs.files, image_path, image_url)]
    ELSE fs

\* the exception the parsing lines of extract_book_info end with, "" when
\* every element is there: None.text and None.find_next raise
\* AttributeError, None['content'] and None['class'] raise TypeError, a
\* short list raises IndexError
parse_error(doc) ==
    IF doc.h1 = <<>> \/ doc.upc = <<>> \/ doc.price_incl = <<>>
       \/ doc.price_excl = <<>> \/ doc.availability = <<>> THEN "AttributeError"
    ELSE IF doc.description = <<>> THEN "TypeError"
    ELSE IF doc.breadcrumb = <<>> THEN "AttributeError"
    ELSE IF Len(doc.breadcrumb[1]) < 3 THEN "IndexError"
    ELSE IF doc.rating = <<>> THEN "TypeError"
    ELSE IF Len(doc.rating[1]) < 2 THEN "IndexError"
    ELSE IF doc.img.kind = "nodiv" THEN "AttributeError"
    ELSE IF doc.img.kind # "src" THEN "TypeError"
    ELSE ""

\* the record extract_book_info builds from a page that has every element
book_record(book_url, doc) ==
    LET title == strip(doc.h1[1])
        category == strip(doc.breadcrumb[1][3])
        image_name == title \o JpgSuffix
    IN  [title |-> title,
         upc |-> strip(doc.upc[1]),
         price_incl_tax |-> DropFirst(strip(doc.price_incl[1])),
         price_excl_tax |-> DropFirst(strip(doc.price_excl[1])),
         availability |-> strip(doc.availability[1]),
         description |-> strip(doc.description[1]),
         category |-> category,
         rating |-> doc.rating[1][2],
         image_url |-> urljoin(domain_of(book_url), doc.img.ref),
         image_path |-> os_path_join3(ImagesDir, category, image_name)]

\* extract_book_info(book_url): {} (info = <<>>) when the fetch failed; an
\* exception that nothing catches when an element is missing; otherwise the
\* record (info = <<record>>), after download_image has run.  reqs lists the
\* GETs made, fs is the file system left behind.
extract_book_info(s, book_url, fs) ==
    LET r == extract_soup(s, book_url) IN
    IF ~r.ok
    THEN [exc |-> "", info |-> <<>>, fs |-> fs, reqs |-> <<Request(book_url, FALSE)>>]
    ELSE IF parse_error(r.doc) # ""
    THEN [exc |-> parse_error(r.doc), info |-> <<>>, fs |-> fs,
          reqs |-> <<Request(book_url, TRUE)>>]
    ELSE LET rec == book_record(book_url, r.doc)
             image_name == rec.title \o JpgSuffix
         IN  [exc |-> "", info |-> <<rec>>,
              fs |-> download_image(s, rec.image_url, rec.category, image_name, fs),
              reqs |-> <<Request(book_url, TRUE),
                         Request(rec.image_url, image_status(s, rec.image_url) = 200)>>]

fieldnames_upc_first ==
    <<"upc", "title", "price_incl_tax", "price_excl_tax", "availability",
      "description", "category", "rating", "image_url", "image_path">>

\* the column list of write_to_csv
fieldnames ==
    <<"title", "upc", "price_incl_tax", "price_excl_tax", "availability",
      "description", "category", "rating", "image_url", "image_path">>

\* csv.DictWriter: one cell per column, taken from the record by its key
csv_row(book) == [i \in DOMAIN fieldnames |-> book[fieldnames[i]]]

\* write_to_csv opening the file for appending
write_to_csv_append(fs, category_name, bks) ==
    LET name == category_name \o ".csv"
        old == IF name \in DOMAIN fs THEN fs[name] ELSE <<>>
    IN  Put(fs, name, old \o <<fieldnames>> \o [i \in DOMAIN bks |-> csv_row(bks[i])])

\* write_to_csv(category_name, books): <category_name>.csv is opened with
\* mode 'w', then the header and one row per record are written.  The
\* records have the keys of fieldnames and no other, so DictWriter never
\* raises on an unknown key.
write_to_csv(fs, category_name, bks) ==
    Put(fs, category_name \o ".csv",
        <<fieldnames>> \o [i \in DOMAIN bks |-> csv_row(bks[i])])

-----------------------------------------------------------------------------
(* The run of etl (main.py), one step per call or loop iteration *)

\* the GETs made by the current call of get_books_in_category
PagFetches == SubSeq(requests, pagStart + 1, Len(requests))

Init ==
    /\ site \in Sites
    /\ pc = "start"
    /\ exc = ""
    /\ categories = <<>>
    /\ ci = 0
    /\ cursor = <<>>
    /\ book_urls = <<>>
    /\ bi = 0
    /\ books = <<>>
    /\ files = EmptyMap
    /\ dirs = {}
    /\ imgFiles = EmptyMap
    /\ requests = <<>>
    /\ pagStart = 0
    /\ finished = <<>>
    /\ filename = <<>>
    /\ cleaned = <<>>

\* the head of the category loop: the next category_url, books = [] and the
\* call of get_books_in_category, or the end of etl after the last category
BeginCategory(cats, i, reqs) ==
    IF i <= Len(cats)
    THEN /\ pc' = "paginate"
         /\ ci' = i
         /\ cursor' = <<cats[i]>>
         /\ book_urls' = <<>>
         /\ books' = <<>>
         /\ bi' = 0
         /\ pagStart' = Len(reqs)
    ELSE /\ pc' = "done"
         /\ UNCHANGED <<ci, cursor, book_urls, books, bi, pagStart>>

\* what is remembered of a category the loop has left
Finished(exported) ==
    [url |-> categories[ci], book_urls |-> book_urls, books |-> books,
     exported |-> exported]

\* categories = get_categories(url); if not categories: return
Discover ==
    /\ pc = "start"
    /\ LET r == get_categories(site, HomeUrl) IN
       /\ requests' = Append(requests, Request(HomeUrl, extract_soup(site, HomeUrl).ok))
       /\ categories' = r.val
       /\ exc' = r.exc
       /\ IF r.exc # ""
          THEN pc' = "crashed" /\ UNCHANGED <<ci, cursor, book_urls, books, bi, pagStart>>
          ELSE IF r.val = <<>>
          THEN pc' = "done" /\ UNCHANGED <<ci, cursor, book_urls, books, bi, pagStart>>
          ELSE BeginCategory(r.val, 1, requests')
    /\ UNCHANGED <<site, files, dirs, imgFiles, finished, filename, cleaned>>

\* the paginator fetching a page a second time when the first fetch failed
PagIterRetry ==
    /\ pc = "paginate"
    /\ cursor # <<>>
    /\ Len(PagFetches) < MaxFetches
    /\ LET url == cursor[1]
           r == extract_soup(site, url)
       IN  IF ~r.ok
           THEN /\ requests' = requests \o <<Request(url, FALSE), Request(url, FALSE)>>
                /\ pc' = "pag_return"
                /\ UNCHANGED <<cursor, book_urls, exc>>
           ELSE LET scan == scan_articles(url, r.doc.articles) IN
                /\ requests' = Append(requests, Request(url, TRUE))
                /\ book_urls' = book_urls \o scan.urls
                /\ IF scan.exc = "AttributeError"
                   THEN pc' = "pag_return" /\ UNCHANGED <<cursor, exc>>
                   ELSE IF scan.exc # ""
                   THEN pc' = "crashed" /\ exc' = scan.exc /\ UNCHANGED cursor
                   ELSE IF r.doc.next.kind = "none"
                   THEN pc' = "pag_return" /\ cursor' = <<>> /\ UNCHANGED exc
                   ELSE IF r.doc.next.kind # "link"
                   THEN pc' = "crashed" /\ exc' = "TypeError" /\ UNCHANGED cursor
                   ELSE /\ cursor' = <<urljoin(url, r.doc.next.ref)>>
                        /\ UNCHANGED <<pc, exc>>
    /\ UNCHANGED <<site, categories, ci, bi, books, files, dirs, imgFiles,
                   pagStart, finished, filename, cleaned>>

\* one iteration of "while category_url:" in get_books_in_category: fetch the
\* cursor page and break when that failed; append the item URLs of the page
\* and break on AttributeError; then move the cursor to the target of the
\* 'next' control, or to None when the page has none.  An exception other
\* than AttributeError leaves the function and etl.
PagIter ==
    /\ pc = "paginate"
    /\ cursor # <<>>
    /\ Len(PagFetches) < MaxFetches
    /\ LET url == cursor[1]
           r == extract_soup(site, url)
       IN  IF ~r.ok
           THEN /\ requests' = Append(requests, Request(url, FALSE))
                /\ pc' = "pag_return"
                /\ UNCHANGED <<cursor, book_urls, exc>>
           ELSE LET scan == scan_articles(url, r.doc.articles) IN
                /\ requests' = Append(requests, Request(url, TRUE))
                /\ book_urls' = book_urls \o scan.urls
                /\ IF scan.exc = "AttributeError"
                   THEN pc' = "pag_return" /\ UNCHANGED <<cursor, exc>>
                   ELSE IF scan.exc # ""
                   THEN pc' = "crashed" /\ exc' = scan.exc /\ UNCHANGED cursor
                   ELSE IF r.doc.next.kind = "none"
                   THEN pc' = "pag_return" /\ cursor' = <<>> /\ UNCHANGED exc
                   ELSE IF r.doc.next.kind # "link"
                   THEN pc' = "crashed" /\ exc' = "TypeError" /\ UNCHANGED cursor
                   ELSE /\ cursor' = <<urljoin(url, r.doc.next.ref)>>
                        /\ UNCHANGED <<pc, exc>>
    /\ UNCHANGED <<site, categories, ci, bi, books, files, dirs, imgFiles,
                   pagStart, finished, filename, cleaned>>

\* the category loop without "if not book_urls: continue", as in the etl of
\* scraping/get_books_data.py
CategoryBooksNoSkip ==
    /\ pc = "pag_return"
    /\ IF book_urls = <<>> THEN pc' = "export" /\ bi' = 0 ELSE pc' = "books" /\ bi' = 1
    /\ UNCHANGED <<site, exc, categories, ci, cursor, book_urls, books, files, dirs,
                   imgFiles, requests, pagStart, finished, filename, cleaned>>

\* book_urls = get_books_in_category(category_url) has returned;
\* if not book_urls: continue
CategoryBooks ==
    /\ pc = "pag_return"
    /\ IF book_urls = <<>>
       THEN /\ finished' = Append(finished, Finished(FALSE))
            /\ BeginCategory(categories, ci + 1, requests)
       ELSE /\ pc' = "books"
            /\ bi' = 1
            /\ UNCHANGED <<ci, cursor, book_urls, books, pagStart, finished>>
    /\ UNCHANGED <<site, exc, categories, files, dirs, imgFiles, requests,
                   filename, cleaned>>

\* one iteration of "for book_url in book_urls": extract_book_info, and
\* books.append(book_info) when the record is not empty
ExtractBook ==
    /\ pc = "books"
    /\ LET r == extract_book_info(site, book_urls[bi], [dirs |-> dirs, files |-> imgFiles]) IN
       /\ requests' = requests \o r.reqs
       /\ dirs' = r.fs.dirs
       /\ imgFiles' = r.fs.files
       /\ exc' = r.exc
       /\ IF r.exc # ""
          THEN pc' = "crashed" /\ UNCHANGED <<books, bi>>
          ELSE /\ books' = IF r.info # <<>> THEN Append(books, r.info[1]) ELSE books
               /\ IF bi < Len(book_urls)
                  THEN bi' = bi + 1 /\ UNCHANGED pc
                  ELSE pc' = "export" /\ UNCHANGED bi
    /\ UNCHANGED <<site, categories, ci, cursor, book_urls, files, pagStart,
                   finished, filename, cleaned>>

\* category_name = category_url.rsplit('/', 2)[-2];
\* write_to_csv(category_name, books); then the next category
Export ==
    /\ pc = "export"
    /\ files' = write_to_csv(files, rsplit_name(categories[ci]), books)
    /\ finished' = Append(finished, Finished(TRUE))
    /\ BeginCategory(categories, ci + 1, requests)
    /\ UNCHANGED <<site, exc, categories, dirs, imgFiles, requests, filename, cleaned>>

Next == Discover \/ PagIter \/ CategoryBooks \/ ExtractBook \/ Export

Spec == Init /\ [][Next]_vars

-----------------------------------------------------------------------------
(* sanitize_filename on its own *)

\* the characters of the generated file names: the nine reserved ones and
\* two others
FilenameChars == {"a", ".", "<", ">", ":", "\"", "/", "\\", "|", "?", "*"}

InitSanitize ==
    /\ site = BaseSite
    /\ pc = "sanitize"
    /\ exc = ""
    /\ categories = <<>>
    /\ ci = 0
    /\ cursor = <<>>
    /\ book_urls = <<>>
    /\ bi = 0
    /\ books = <<>>
    /\ files = EmptyMap
    /\ dirs = {}
    /\ imgFiles = EmptyMap
    /\ requests = <<>>
    /\ pagStart = 0
    /\ finished = <<>>
    /\ filename \in SeqsUpTo(FilenameChars, MaxLen)
    /\ cleaned = <<>>

\* sanitize_filename applied to filename, then to its own result; main is
\* the function of get_books_data.py, utils the one of utils.py
Sanitize ==
    /\ pc = "sanitize"
    /\ Len(cleaned) < 2
    /\ LET arg == IF cleaned = <<>> THEN [main |-> filename, utils |-> filename]
                  ELSE cleaned[Len(cleaned)]
       IN  cleaned' = Append(cleaned, [main |-> sanitize_filename(arg.main),
                                       utils |-> utils_sanitize_filename(arg.utils)])
    /\ UNCHANGED <<site, pc, exc, categories, ci, cursor, book_urls, bi, books,
                   files, dirs, imgFiles, requests, pagStart, finished, filename>>

NextSanitize == Sanitize

SpecSanitize == InitSanitize /\ [][NextSanitize]_vars

-----------------------------------------------------------------------------
(* Properties *)

\* a page lacks an element extract_book_info requires
LacksRequiredElement(doc) ==
    \/ \E e \in RequiredElems \ {"img"} : doc[e] = <<>>
    \/ doc.breadcrumb # <<>> /\ Len(doc.breadcrumb[1]) < 3
    \/ doc.rating # <<>> /\ Len(doc.rating[1]) < 2
    \/ doc.img.kind # "src"

\* C1: when the page of the item being extracted is fetched but lacks a
\* required element, extract_book_info returns the Empty record: no exception
\* leaves it, no row is added for the item, and etl goes on to the next item
\* of the category (or to the export after the last one).
C1_MissingElementGivesEmpty ==
    [][(/\ pc = "books"
        /\ extract_soup(site, book_urls[bi]).ok
        /\ LacksRequiredElement(extract_soup(site, book_urls[bi]).doc))
       => (/\ pc' # "crashed"
           /\ exc' = ""
           /\ books' = books
           /\ IF bi < Len(book_urls) THEN bi' = bi + 1 /\ pc' = "books"
              ELSE pc' = "export")]_vars

ElevenColumns ==
    <<"product_page_url", "upc", "title", "price_incl_tax", "price_excl_tax",
      "availability", "description", "category", "rating", "image_url", "image_path">>

TenColumns ==
    <<"title", "upc", "price_incl_tax", "price_excl_tax", "availability",
      "description", "category", "rating", "image_url", "image_path">>

Range(f) == {f[x] : x \in DOMAIN f}

\* C2 as stated: every written file starts with the eleven-column header
\* (product page URL, identifier code, title, ...), and every record the
\* extractor returned has a value for each of the eleven fields.
C2_ElevenColumnHeader ==
    /\ \A f \in DOMAIN files : files[f][1] = ElevenColumns
    /\ \A i \in DOMAIN books : DOMAIN books[i] = Range(ElevenColumns)

\* C2 amended: every written file starts with the ten-column header title,
\* upc, price_incl_tax, price_excl_tax, availability, description, category,
\* rating, image_url, image_path, every data row has ten cells, and every
\* record the extractor returned has a value for exactly these ten fields
\* (none for the page URL).
C2_TenColumnHeader ==
    /\ \A f \in DOMAIN files :
          /\ files[f][1] = TenColumns
          /\ \A i \in DOMAIN files[f] : Len(files[f][i]) = 10
    /\ \A i \in DOMAIN books :
          /\ DOMAIN books[i] = Range(TenColumns)
          /\ "product_page_url" \notin DOMAIN books[i]

\* a file with the header and at least one record, the record still in books
C2_Witness ==
    /\ pc = "done"
    /\ books # <<>>
    /\ \E f \in DOMAIN files : Len(files[f]) = Len(books) + 1

\* C3: when get_categories returned the empty sequence the run has ended with
\* the home page as its only request, no category handled and no file
\* written; and when get_books_in_category returned the empty sequence the
\* next step writes no file and goes on to the next category (or ends the
\* run after the last one).
C3_EmptyResultsAreSkipped ==
    /\ []((pc # "start" /\ exc = "" /\ categories = <<>>)
            => (/\ pc = "done"
                /\ Len(requests) = 1 /\ requests[1].url = HomeUrl
                /\ finished = <<>>
                /\ DOMAIN files = {} /\ DOMAIN imgFiles = {} /\ dirs = {}))
    /\ [][(pc = "pag_return" /\ book_urls = <<>>)
            => (/\ files' = files
                /\ requests' = requests
                /\ IF ci < Len(categories)
                   THEN pc' = "paginate" /\ ci' = ci + 1 /\ cursor' = <<categories[ci + 1]>>
                   ELSE pc' = "done")]_vars

\* a category without item URLs was left without export and the run is in
\* the next category
C3_Witness ==
    /\ pc = "paginate"
    /\ ci >= 2
    /\ Len(finished) = ci - 1
    /\ finished[ci - 1].book_urls = <<>>
    /\ ~finished[ci - 1].exported
    /\ DOMAIN files = {}

\* the absolute URL a reference of the navigation block stands for
NavTarget(ref) == IF ref = RefCatA THEN ListA1 ELSE ListB1

\* C4: after discovery on a home page with N >= 1 navigation entries, the
\* entries after the first all holding links, categories has N-1 URLs, the
\* targets of entries 2..N in order, each absolute; and categories is empty,
\* with no exception, when the home fetch failed or the block is absent.
C4_DiscoveryDropsFirstEntry ==
    pc # "start" =>
        LET r == site.pages[HomeUrl] IN
        /\ (~r.ok \/ r.doc.nav = <<>>) => (categories = <<>> /\ exc = "" /\ pc = "done")
        /\ (r.ok /\ r.doc.nav # <<>>) =>
              LET entries == r.doc.nav[1]
                  N == Len(entries)
              IN  (N >= 1 /\ \A i \in 2..N : entries[i].kind = "link") =>
                     /\ pc # "crashed" \/ Len(requests) > 1
                     /\ Len(categories) = N - 1
                     /\ \A i \in 1..(N - 1) :
                           /\ categories[i] = NavTarget(entries[i + 1].ref)
                           /\ categories[i].host = Host

\* three entries gave the two categories behind the second and the third
C4_Witness ==
    /\ pc = "paginate"
    /\ site.pages[HomeUrl].ok
    /\ site.pages[HomeUrl].doc.nav = <<<<Link(RefCatB), Link(RefCatA), Link(RefCatB)>>>>
    /\ categories = <<ListA1, ListB1>>

\* the item URLs of the fetched pages of a log, page by page, each link
\* joined with the URL of its page
RECURSIVE ItemsOfPages(_)
ItemsOfPages(log) ==
    IF log = <<>> THEN <<>>
    ELSE LET arts == extract_soup(site, Head(log).url).doc.articles IN
         [i \in DOMAIN arts |-> urljoin(Head(log).url, arts[i].ref)]
            \o ItemsOfPages(Tail(log))

RECURSIVE BlocksOfPages(_)
BlocksOfPages(log) ==
    IF log = <<>> THEN 0
    ELSE Len(extract_soup(site, Head(log).url).doc.articles) + BlocksOfPages(Tail(log))

\* C5: when get_books_in_category returns after a chain of pages that were
\* all fetched and ended at a page without 'next' (so that every item block
\* on the way held its link), its result has as many
\* URLs as the pages have item blocks, in page order then document order,
\* each joined with the URL of its page, repeated when a URL is on two pages.
C5_PaginatorCollectsAllPages ==
    (pc = "pag_return" /\ cursor = <<>>) =>
        /\ \A j \in DOMAIN PagFetches : PagFetches[j].ok
        /\ Len(book_urls) = BlocksOfPages(PagFetches)
        /\ book_urls = ItemsOfPages(PagFetches)

\* two pages, three blocks, and the URL of the last block of page 1 again on
\* page 2
C5_Witness ==
    /\ pc = "pag_return"
    /\ cursor = <<>>
    /\ Len(PagFetches) = 2
    /\ Len(book_urls) = 3
    /\ book_urls[1] # book_urls[2]
    /\ book_urls[2] = book_urls[3]
    /\ Len(site.pages[ListA1].doc.articles) = 2

\* C6: inside get_books_in_category only the last fetch can have failed; the
\* fetches follow the cursor, one per cursor page, from the category URL
\* along the 'next' links; and when the last fetch failed the function has
\* returned, without exception, the item URLs of the pages before it.
C6_FailedFetchReturnsPartial ==
    pc \in {"paginate", "pag_return"} =>
        LET log == PagFetches
            k == Len(log)
        IN  /\ \A j \in 1..(k - 1) : log[j].ok
            /\ k >= 1 => log[1].url = categories[ci]
            /\ \A j \in 1..(k - 1) :
                  /\ extract_soup(site, log[j].url).doc.next.kind = "link"
                  /\ log[j + 1].url = urljoin(log[j].url, extract_soup(site, log[j].url).doc.next.ref)
            /\ (k >= 1 /\ ~log[k].ok) =>
                  /\ pc = "pag_return"
                  /\ exc = ""
                  /\ book_urls = ItemsOfPages(SubSeq(log, 1, k - 1))

\* the fetch of the second page failed and the URLs of the first are returned
C6_Witness ==
    /\ pc = "pag_return"
    /\ Len(PagFetches) = 2
    /\ PagFetches[1].ok
    /\ ~PagFetches[2].ok
    /\ Len(book_urls) >= 2

\* the absolute URL of the image of an item page
ImageOf(book_url) ==
    urljoin(domain_of(book_url), extract_soup(site, book_url).doc.img.ref)

\* the cells of the rows of a record list, written out column by column
RowsOf(bks) ==
    [i \in DOMAIN bks |->
        <<bks[i].title, bks[i].upc, bks[i].price_incl_tax, bks[i].price_excl_tax,
          bks[i].availability, bks[i].description, bks[i].category, bks[i].rating,
          bks[i].image_url, bks[i].image_path>>]

\* C7: when the item page is well formed and the image request does not end
\* with status 200 (connection error, 404, another status), extracting the
\* item leaves the image folders and files as they were and appends the
\* complete record, image_url and image_path filled in as computed; and the
\* export writes a row for every record of the category, this one included.
C7_ImageFailureKeepsRecord ==
    /\ [][(/\ pc = "books"
           /\ extract_soup(site, book_urls[bi]).ok
           /\ ~LacksRequiredElement(extract_soup(site, book_urls[bi]).doc)
           /\ image_status(site, ImageOf(book_urls[bi])) # 200)
          => (/\ dirs' = dirs
              /\ imgFiles' = imgFiles
              /\ exc' = ""
              /\ Len(books') = Len(books) + 1
              /\ SubSeq(books', 1, Len(books)) = books
              /\ LET b == books'[Len(books')] IN
                 /\ DOMAIN b = Range(TenColumns)
                 /\ b.image_url = ImageOf(book_urls[bi])
                 /\ b.image_path =
                       os_path_join3(ImagesDir, b.category, b.title \o JpgSuffix))]_vars
    /\ [][pc = "export"
          => LET name == rsplit_name(categories[ci]) \o ".csv" IN
             /\ name \in DOMAIN files'
             /\ Len(files'[name]) = Len(books) + 1
             /\ \A i \in DOMAIN books : files'[name][i + 1] = RowsOf(books)[i]]_vars

\* the run ended with a row whose image could not be fetched, and neither an
\* image folder nor an image file
C7_Witness ==
    /\ pc = "done"
    /\ dirs = {}
    /\ DOMAIN imgFiles = {}
    /\ \E f \in DOMAIN files : \E i \in 2..Len(files[f]) :
          /\ image_status(site, files[f][i][9]) # 200
          /\ files[f][i][10] = <<"i", "m", "a", "g", "e", "s", "/", "T", "/", "a", ".", "j", "p", "g">>

\* the non-empty records of the item URLs, in order
RECURSIVE ExtractedInOrder(_)
ExtractedInOrder(urls) ==
    IF urls = <<>> THEN <<>>
    ELSE extract_book_info(site, Head(urls), [dirs |-> {}, files |-> EmptyMap]).info
            \o ExtractedInOrder(Tail(urls))

CsvName(k) == rsplit_name(finished[k].url) \o ".csv"

\* C8: the files are those of the exported categories; the records of an
\* exported category are the non-empty extraction results of its item URLs,
\* in order; and <category name>.csv, as left by the last export under that
\* name, holds the header row followed by one row per record, in order, so
\* the header alone when there is no record.
C8_ExportWritesHeaderAndRows ==
    /\ DOMAIN files = {CsvName(k) : k \in {j \in DOMAIN finished : finished[j].exported}}
    /\ \A k \in DOMAIN finished :
          finished[k].exported =>
             /\ finished[k].books = ExtractedInOrder(finished[k].book_urls)
             /\ (\A j \in (k + 1)..Len(finished) :
                    ~(finished[j].exported /\ CsvName(j) = CsvName(k)))
                => files[CsvName(k)] = <<TenColumns>> \o RowsOf(finished[k].books)

\* one exported category left the header alone, another one rows
C8_Witness ==
    /\ pc = "done"
    /\ \E f \in DOMAIN files : Len(files[f]) = 1
    /\ \E g \in DOMAIN files : Len(files[g]) >= 2

ReservedNine == {"<", ">", ":", "\"", "/", "\\", "|", "?", "*"}

NotReserved(c) == c \notin ReservedNine

\* C9: the result of sanitize_filename holds none of < > : " / \ | ? *, is
\* the input with exactly those characters taken out, the others in their
\* order, and sanitizing the result again gives the result.
C9_SanitizeStripsReserved ==
    /\ \A i \in DOMAIN cleaned :
          \A v \in {cleaned[i].main, cleaned[i].utils} :
             /\ \A j \in DOMAIN v : v[j] \notin ReservedNine
             /\ v = SelectSeq(filename, NotReserved)
    /\ Len(cleaned) = 2 => cleaned[2] = cleaned[1]

\* a name with reserved and other characters was sanitized twice
C9_Witness ==
    /\ Len(cleaned) = 2
    /\ filename = <<"a", "*", ".">>
    /\ cleaned[2].main = <<"a", ".">>

\* C10: inside one call of get_books_in_category the number of page fetches
\* never exceeds the number of distinct pages fetched, so no page is fetched
\* twice and the loop ends once the pages of the category are used up.
C10_FetchesBoundedByDistinctPages ==
    pc \in {"paginate", "pag_return"} =>
        Len(PagFetches) <= Cardinality({PagFetches[j].url : j \in DOMAIN PagFetches})

\* a text holds one of the nine reserved characters
HasReserved(text) == \E j \in DOMAIN text : text[j] \in ReservedNine

\* the paths at which the body of an image URL is stored
ArchivedAt(image_url) == {p \in DOMAIN imgFiles : imgFiles[p] = image_url}

\* C11: for every record of the current category whose image was archived
\* (its image request ended with status 200), the image is stored at exactly
\* the record's image_path when neither title nor category label holds a
\* reserved character, and it is stored somewhere, but not at the record's
\* image_path, when the title holds a reserved character.
C11_ImagePathMatchesUnlessReserved ==
    \A i \in DOMAIN books :
        LET b == books[i] IN
        image_status(site, b.image_url) = 200 =>
            /\ (~HasReserved(b.title) /\ ~HasReserved(b.category))
                  => ArchivedAt(b.image_url) = {b.image_path}
            /\ HasReserved(b.title)
                  => /\ ArchivedAt(b.image_url) # {}
                     /\ b.image_path \notin ArchivedAt(b.image_url)
                     /\ b.image_path \notin DOMAIN imgFiles

\* one record with the title a:b, archived as images/T/ab.jpg and recorded as
\* images/T/a:b.jpg, beside one without reserved characters, archived where
\* it is recorded
C11_Witness ==
    \E i, j \in DOMAIN books :
        /\ books[i].title = <<"a", ":", "b">>
        /\ books[i].category = <<"T">>
        /\ books[i].image_path =
              <<"i", "m", "a", "g", "e", "s", "/", "T", "/", "a", ":", "b", ".", "j", "p", "g">>
        /\ ArchivedAt(books[i].image_url) =
              {<<"i", "m", "a", "g", "e", "s", "/", "T", "/", "a", "b", ".", "j", "p", "g">>}
        /\ books[j].title = <<"b">>
        /\ books[j].image_path =
              <<"i", "m", "a", "g", "e", "s", "/", "T", "/", "b", ".", "j", "p", "g">>
        /\ ArchivedAt(books[j].image_url) = {books[j].image_path}

====
